---- MODULE Spec2Model ----
(***************************************************************************)
(* duration-timestamp: make / stringify / parse of duration timestamps.    *)
(*                                                                         *)
(* A timestamp object is a function from a subset of the field names       *)
(* "total", "hours", "minutes", "seconds" to naturals: a field that is not *)
(* in the domain is an absent (undefined) property.  A JavaScript string   *)
(* is a sequence of one-character strings.  A thrown Error is its message; *)
(* NoError is the absence of a throw.                                      *)
(***************************************************************************)
EXTENDS Integers, Sequences, FiniteSets, TLC

VARIABLES pc, op, given, arg, obj, result, input, format, output, error,
          options, opts, replacer, calls, youtubeID, pattern, returned

vars == <<pc, op, given, arg, obj, result, input, format, output, error,
          options, opts, replacer, calls, youtubeID, pattern, returned>>

(***************************************************************************)
(* Bounds of the model.                                                    *)
(***************************************************************************)
\* make is given unit values 60*q + r, q \in 0..MaxCarry
MaxCarry == 2
\* make is given totals 3600*h + 60*m + s with h \in 0..MaxHours
MaxHours == 2
\* stringify is given unit values 0..MaxSmall, and 9, 10, 59, 60, 99
MaxSmall == 3
\* replace is given texts of up to MaxPieces pieces
MaxPieces == 3
\* parse is given texts whose numbers are 0..MaxParse, and 10, 59, 60, 99
MaxParse == 1
\* and texts of up to MaxTokens tokens when the units are not in order
MaxTokens == 3

(***************************************************************************)
(* Objects and their properties.                                           *)
(***************************************************************************)
Fields == {"total", "hours", "minutes", "seconds"}
Units == {"hours", "minutes", "seconds"}

\* the object with no property, {}
Empty == [k \in {} |-> 0]

\* the property is present
Has(o, f) == f \in DOMAIN o

\* o.f is truthy: present and not 0
Truthy(o, f) == Has(o, f) /\ o[f] # 0

\* o.f ?? 0, and o.f || 0
OrZero(o, f) == IF Has(o, f) THEN o[f] ELSE 0

\* o.f = v
Put(o, f, v) == [k \in DOMAIN o \cup {f} |-> IF k = f THEN v ELSE o[k]]

NoError == ""

(***************************************************************************)
(* The duration model.                                                     *)
(***************************************************************************)
secondsInMinute == 60
minutesInHour == 60
secondsInHour == secondsInMinute * minutesInHour

sumNoHours(timestamp) ==
    OrZero(timestamp, "seconds") + OrZero(timestamp, "minutes") * secondsInMinute

sum(timestamp) ==
    OrZero(timestamp, "seconds")
        + OrZero(timestamp, "minutes") * secondsInMinute
        + OrZero(timestamp, "hours") * secondsInHour

verifyNever(timestamp) == NoError

verifyTotalPresent(timestamp) ==
    IF Has(timestamp, "total") THEN NoError
    ELSE "timestamp total did not match the sum"

\* the message verify throws, NoError when it returns
verify(timestamp) ==
    IF Has(timestamp, "total") /\ timestamp["total"] = sum(timestamp)
    THEN NoError
    ELSE "timestamp total did not match the sum"

modSwapped(value, divisor) ==
    [remainder |-> value \div divisor, whole |-> value % divisor]

mod(value, divisor) ==
    [remainder |-> value % divisor, whole |-> value \div divisor]

\* if (!timestamp.f) timestamp.f = 0
ZeroFill(timestamp, f) ==
    IF Truthy(timestamp, f) THEN timestamp ELSE Put(timestamp, f, 0)

makeFromTotalAlone(timestamp) ==
    LET t1 == ZeroFill(ZeroFill(ZeroFill(timestamp, "seconds"), "minutes"), "hours")
        a == mod(t1["total"], secondsInHour)
        t2 == Put(Put(t1, "hours", a.whole), "minutes", a.remainder)
        b == mod(t2["minutes"] * secondsInMinute, secondsInMinute)
        t3 == Put(Put(t2, "minutes", b.whole), "seconds", b.remainder)
    IN  [timestamp |-> t3, error |-> verify(t3)]

\* make when timestamp.total is truthy: [timestamp |-> the argument object
\* as make leaves it, error |-> what make throws]
makeFromTotal(timestamp) ==
    LET t1 == ZeroFill(ZeroFill(ZeroFill(timestamp, "seconds"), "minutes"), "hours")
    IN  IF t1["seconds"] # 0 \/ t1["minutes"] # 0 \/ t1["hours"] # 0
        THEN [timestamp |-> t1, error |-> verify(t1)]
        ELSE LET a == mod(t1["total"], secondsInHour)
                 t2 == Put(Put(t1, "hours", a.whole), "minutes", a.remainder)
                 b == mod(t2["minutes"] * secondsInMinute, secondsInMinute)
                 t3 == Put(Put(t2, "minutes", b.whole), "seconds", b.remainder)
             IN  [timestamp |-> t3, error |-> verify(t3)]

\* make when timestamp.total is absent or 0
makeFromUnits(timestamp) ==
    LET t1 == IF Truthy(timestamp, "seconds")
              THEN LET a == mod(timestamp["seconds"], secondsInMinute)
                   IN  Put(Put(timestamp, "minutes", OrZero(timestamp, "minutes") + a.whole),
                           "seconds", a.remainder)
              ELSE Put(timestamp, "seconds", 0)
        t2 == IF Truthy(t1, "minutes")
              THEN LET b == mod(t1["minutes"], minutesInHour)
                   IN  Put(Put(t1, "hours", OrZero(t1, "hours") + b.whole),
                           "minutes", b.remainder)
              ELSE Put(t1, "minutes", 0)
        t3 == IF ~Truthy(t2, "hours") THEN Put(t2, "hours", 0) ELSE t2
    IN  [timestamp |-> Put(t3, "total", sum(t3)), error |-> NoError]

make(timestamp) ==
    IF Truthy(timestamp, "total")
    THEN makeFromTotal(timestamp)
    ELSE makeFromUnits(timestamp)

(***************************************************************************)
(* Strings, and the conversions between numbers and strings.               *)
(***************************************************************************)
Digits == <<"0", "1", "2", "3", "4", "5", "6", "7", "8", "9">>

\* String(value) of a non-negative integer: its decimal digits
RECURSIVE String(_)
String(value) ==
    IF value < 10
    THEN <<Digits[value + 1]>>
    ELSE String(value \div 10) \o <<Digits[(value % 10) + 1]>>

\* parts.join(separator)
RECURSIVE join(_, _)
join(parts, separator) ==
    IF parts = <<>> THEN <<>>
    ELSE IF Len(parts) = 1 THEN parts[1]
    ELSE parts[1] \o separator \o join(Tail(parts), separator)

\* the value of a destructured property that is absent
Undefined == 0 - 1

\* const { total, hours, minutes, seconds } = timestamp
Prop(o, f) == IF Has(o, f) THEN o[f] ELSE Undefined

\* !value, for a number or undefined; Number(undefined) is NaN, falsy too
Falsy(value) == value = Undefined \/ value = 0

(***************************************************************************)
(* stringify.                                                              *)
(***************************************************************************)
Numeric == "00:00:00"
Seconds == "0s"
Tiny == "0h0m0s"
Short == "0h 0m 0s"
Medium == "0 hours 0 mins 0 secs"
Long == "0 hours 0 minutes 0 seconds"

Format == {Numeric, Seconds, Tiny, Short, Medium, Long}

\* the format argument left out
NoFormat == "undefined"

padNone(value) ==
    IF Falsy(value) THEN <<"0">> ELSE String(value)

padUndefinedShort(value) ==
    IF value = Undefined THEN <<"0">>
    ELSE IF value < 10 THEN <<"0">> \o String(value)
    ELSE String(value)

pad(value) ==
    IF Falsy(value) THEN <<"0", "0">>
    ELSE IF value < 10 THEN <<"0">> \o String(value)
    ELSE String(value)

unitPartsAll(hours, minutes, seconds, h, m, s) ==
    <<padNone(hours) \o h, padNone(minutes) \o m, padNone(seconds) \o s>>

\* if (Number(hours)) parts.push(`${hours}h`) and so on: the parts pushed
unitParts(hours, minutes, seconds, h, m, s) ==
    (IF ~Falsy(hours) THEN <<String(hours) \o h>> ELSE <<>>)
        \o (IF ~Falsy(minutes) THEN <<String(minutes) \o m>> ELSE <<>>)
        \o (IF ~Falsy(seconds) THEN <<String(seconds) \o s>> ELSE <<>>)

OrElseNothing(text, fallback) == text

\* text || fallback
OrElse(text, fallback) == IF text = <<>> THEN fallback ELSE text

numericParts(hours, minutes, seconds) ==
    IF ~Falsy(hours)
    THEN <<String(hours), pad(minutes), pad(seconds)>>
    ELSE <<IF Falsy(minutes) THEN <<"0">> ELSE String(minutes), pad(seconds)>>

secondsTextOfRemainder(total) == String(total % secondsInMinute) \o <<"s">>

\* String(total) + 's'
secondsText(total) == String(total) \o <<"s">>

\* stringify(timestamp, format): [text |-> the string returned, error |->
\* the message thrown]
stringify(timestamp, fmt) ==
    IF verify(timestamp) # NoError
    THEN [text |-> <<>>, error |-> verify(timestamp)]
    ELSE
    LET total == Prop(timestamp, "total")
        hours == Prop(timestamp, "hours")
        minutes == Prop(timestamp, "minutes")
        seconds == Prop(timestamp, "seconds")
        f == IF fmt = NoFormat THEN Short ELSE fmt
        Ok(text) == [text |-> text, error |-> NoError]
    IN  CASE f = Short ->
               Ok(OrElse(join(unitParts(hours, minutes, seconds,
                                        <<"h">>, <<"m">>, <<"s">>), <<" ">>),
                         <<"0", "0", "s">>))
          [] f = Tiny ->
               Ok(OrElse(join(unitParts(hours, minutes, seconds,
                                        <<"h">>, <<"m">>, <<"s">>), <<>>),
                         <<"0", "s">>))
          [] f = Medium ->
               Ok(OrElse(join(unitParts(hours, minutes, seconds,
                                        <<" ", "h", "o", "u", "r", "s">>,
                                        <<" ", "m", "i", "n", "s">>,
                                        <<" ", "s", "e", "c", "s">>), <<" ">>),
                         <<"0", " ", "s", "e", "c", "s">>))
          [] f = Long ->
               Ok(OrElse(join(unitParts(hours, minutes, seconds,
                                        <<" ", "h", "o", "u", "r", "s">>,
                                        <<" ", "m", "i", "n", "u", "t", "e", "s">>,
                                        <<" ", "s", "e", "c", "o", "n", "d", "s">>), <<" ">>),
                         <<"0", " ", "s", "e", "c", "o", "n", "d", "s">>))
          [] f = Numeric ->
               Ok(join(numericParts(hours, minutes, seconds), <<":">>))
          [] f = Seconds ->
               Ok(secondsText(total))
          [] OTHER ->
               [text |-> <<>>, error |-> "stringify: invalid format"]

(***************************************************************************)
(* Regular expressions.  A pattern is a tree; matchAt gives the ways the   *)
(* pattern matches from a position, in the order a backtracking matcher    *)
(* tries them (greedy quantifiers, alternatives left to right), each way   *)
(* being the position reached and the named groups captured.               *)
(***************************************************************************)
Chars(set) == [t |-> "chars", set |-> set]
Lit(text) == [t |-> "lit", text |-> text]
Cat(xs) == [t |-> "cat", xs |-> xs]
Alt(xs) == [t |-> "alt", xs |-> xs]
Rep(x, lo, hi) == [t |-> "rep", x |-> x, lo |-> lo, hi |-> hi]
Opt(x) == Rep(x, 0, 1)
Group(name, x) == [t |-> "group", name |-> name, x |-> x]
Bol == [t |-> "bol"]
Eol == [t |-> "eol"]

\* no upper limit of a quantifier
Unbounded == 0 - 1

\* \d and \s
DigitChars == {Digits[i] : i \in 1..10}
SpaceChars == {" ", "\t", "\n"}

At(pos, groups) == [pos |-> pos, groups |-> groups]

RECURSIVE matchAt(_, _, _, _)
RECURSIVE matchEach(_, _, _)
RECURSIVE matchCat(_, _, _, _)
RECURSIVE matchAlt(_, _, _, _, _)
RECURSIVE matchRep(_, _, _, _, _, _)
RECURSIVE matchRepEach(_, _, _, _, _)

\* the ways re matches s from position i, the groups so far being groups
matchAt(re, s, i, groups) ==
    CASE re.t = "chars" ->
           IF i <= Len(s) /\ s[i] \in re.set THEN <<At(i + 1, groups)>> ELSE <<>>
      [] re.t = "lit" ->
           IF i + Len(re.text) - 1 <= Len(s)
              /\ SubSeq(s, i, i + Len(re.text) - 1) = re.text
           THEN <<At(i + Len(re.text), groups)>>
           ELSE <<>>
      [] re.t = "cat" -> matchCat(re.xs, 1, s, <<At(i, groups)>>)
      [] re.t = "alt" -> matchAlt(re.xs, 1, s, i, groups)
      [] re.t = "rep" -> matchRep(re.x, re.lo, re.hi, s, i, groups)
      [] re.t = "group" ->
           LET inner == matchAt(re.x, s, i, groups)
           IN  [k \in 1..Len(inner) |->
                  At(inner[k].pos,
                     Put(inner[k].groups, re.name, SubSeq(s, i, inner[k].pos - 1)))]
      [] re.t = "bol" -> IF i = 1 THEN <<At(i, groups)>> ELSE <<>>
      [] re.t = "eol" -> IF i = Len(s) + 1 THEN <<At(i, groups)>> ELSE <<>>

\* re continued from each of the ways reached so far
matchEach(re, s, ways) ==
    IF ways = <<>> THEN <<>>
    ELSE matchAt(re, s, ways[1].pos, ways[1].groups) \o matchEach(re, s, Tail(ways))

matchCat(xs, k, s, ways) ==
    IF k > Len(xs) \/ ways = <<>> THEN ways
    ELSE matchCat(xs, k + 1, s, matchEach(xs[k], s, ways))

matchAlt(xs, k, s, i, groups) ==
    IF k > Len(xs) THEN <<>>
    ELSE matchAt(xs[k], s, i, groups) \o matchAlt(xs, k + 1, s, i, groups)

\* greedy: one more repetition first, then stopping here
matchRep(x, lo, hi, s, i, groups) ==
    LET once == IF hi = 0 THEN <<>>
                ELSE SelectSeq(matchAt(x, s, i, groups), LAMBDA w : w.pos > i)
        more == matchRepEach(x, IF lo > 0 THEN lo - 1 ELSE 0,
                             IF hi = Unbounded THEN Unbounded ELSE hi - 1, s, once)
    IN  more \o (IF lo = 0 THEN <<At(i, groups)>> ELSE <<>>)

matchRepEach(x, lo, hi, s, ways) ==
    IF ways = <<>> THEN <<>>
    ELSE matchRep(x, lo, hi, s, ways[1].pos, ways[1].groups)
            \o matchRepEach(x, lo, hi, s, Tail(ways))

\* a match: index and end delimit the matched text, groups are the named
\* groups that took part (named: the match has a groups object); NoMatch
\* is null
NoMatch == [found |-> FALSE, named |-> FALSE, index |-> 0, end |-> 0, groups |-> Empty]

\* re.exec(s) from position i on: the leftmost match, by the first way
RECURSIVE execFrom(_, _, _)
execFrom(re, s, i) ==
    IF i > Len(s) + 1 THEN NoMatch
    ELSE LET ways == matchAt(re, s, i, Empty)
         IN  IF ways # <<>>
             THEN [found |-> TRUE, named |-> TRUE, index |-> i, end |-> ways[1].pos,
                   groups |-> ways[1].groups]
             ELSE execFrom(re, s, i + 1)

\* timestampsRegex.source, character by character
timestampsRegexSource ==
    <<"(", "?", ":", "(", "?", ":", "(", "?", "<", "h", "o", "u", "r", "s",
      ">", "\\", "d", "{", "1", ",", "2", "}", ")", ":", ")", "?", "(", "?",
      "<", "m", "i", "n", "u", "t", "e", "s", ">", "\\", "d", "{", "1", ",",
      "2", "}", ")", ":", "(", "?", "<", "s", "e", "c", "o", "n", "d", "s",
      ">", "\\", "d", "{", "1", ",", "2", "}", ")", "|", "(", "?", "<", "b",
      "i", "t", "s", ">", "(", "?", ":", "\\", "d", "{", "1", ",", "2", "}",
      "(", "?", ":", "[", "h", "m", "s", "]", "|", " ", "?", "(", "?", ":",
      "h", "o", "u", "r", "|", "m", "i", "n", "(", "?", ":", "u", "t", "e",
      ")", "?", "|", "s", "e", "c", "(", "?", ":", "o", "n", "d", ")", "?",
      ")", "s", "?", ")", " ", "?", ")", "+", ")", ")">>

D12 == Rep(Chars(DigitChars), 1, 2)

timestampsRegex ==
    Alt(<<
        Cat(<<Opt(Cat(<<Group("hours", D12), Lit(<<":">>)>>)),
              Group("minutes", D12), Lit(<<":">>), Group("seconds", D12)>>),
        Group("bits",
              Rep(Cat(<<D12,
                        Alt(<<Chars({"h", "m", "s"}),
                              Cat(<<Opt(Lit(<<" ">>)),
                                    Alt(<<Lit(<<"h", "o", "u", "r">>),
                                          Cat(<<Lit(<<"m", "i", "n">>), Opt(Lit(<<"u", "t", "e">>))>>),
                                          Cat(<<Lit(<<"s", "e", "c">>), Opt(Lit(<<"o", "n", "d">>))>>)>>),
                                    Opt(Lit(<<"s">>))>>)>>),
                        Opt(Lit(<<" ">>))>>),
                  1, Unbounded))>>)

timestampRegexNoEnd ==
    Cat(<<Bol,
          Opt(Cat(<<Group("hours", D12),
                    Alt(<<Lit(<<"h">>), Cat(<<Opt(Chars(SpaceChars)), Lit(<<"h", "o", "u", "r">>), Opt(Lit(<<"s">>))>>)>>),
                    Opt(Chars(SpaceChars))>>)),
          Opt(Cat(<<Group("minutes", D12),
                    Alt(<<Lit(<<"m">>), Cat(<<Opt(Chars(SpaceChars)), Lit(<<"m", "i", "n">>), Opt(Lit(<<"u", "t", "e">>)),
                                        Opt(Lit(<<"s">>))>>)>>),
                    Opt(Chars(SpaceChars))>>)),
          Opt(Cat(<<Group("seconds", D12),
                    Alt(<<Lit(<<"s">>), Cat(<<Opt(Chars(SpaceChars)), Lit(<<"s", "e", "c">>), Opt(Lit(<<"o", "n", "d">>)),
                                        Opt(Lit(<<"s">>))>>)>>),
                    Opt(Chars(SpaceChars))>>))>>)

timestampRegex ==
    Cat(<<Bol,
          Opt(Cat(<<Group("hours", D12),
                    Alt(<<Lit(<<"h">>), Cat(<<Opt(Chars(SpaceChars)), Lit(<<"h", "o", "u", "r">>), Opt(Lit(<<"s">>))>>)>>),
                    Opt(Chars(SpaceChars))>>)),
          Opt(Cat(<<Group("minutes", D12),
                    Alt(<<Lit(<<"m">>), Cat(<<Opt(Chars(SpaceChars)), Lit(<<"m", "i", "n">>), Opt(Lit(<<"u", "t", "e">>)),
                                        Opt(Lit(<<"s">>))>>)>>),
                    Opt(Chars(SpaceChars))>>)),
          Opt(Cat(<<Group("seconds", D12),
                    Alt(<<Lit(<<"s">>), Cat(<<Opt(Chars(SpaceChars)), Lit(<<"s", "e", "c">>), Opt(Lit(<<"o", "n", "d">>)),
                                        Opt(Lit(<<"s">>))>>)>>),
                    Opt(Chars(SpaceChars))>>)),
          Eol>>)

(***************************************************************************)
(* parse.                                                                  *)
(***************************************************************************)
\* Number(text) of a string of digits
RECURSIVE Number(_)
Number(text) ==
    IF text = <<>> THEN 0
    ELSE Number(SubSeq(text, 1, Len(text) - 1)) * 10
            + ((CHOOSE i \in 1..10 : Digits[i] = text[Len(text)]) - 1)

\* Number(groups.name || 0)
NumberOrZero(groups, name) ==
    IF Has(groups, name) /\ groups[name] # <<>> THEN Number(groups[name]) ELSE 0

UnitsOfNoHours(groups) ==
    [hours |-> 0,
     minutes |-> NumberOrZero(groups, "minutes"),
     seconds |-> NumberOrZero(groups, "seconds")]

UnitsOf(groups) ==
    [hours |-> NumberOrZero(groups, "hours"),
     minutes |-> NumberOrZero(groups, "minutes"),
     seconds |-> NumberOrZero(groups, "seconds")]

\* parseCaptureGroups(match && match.groups): [timestamp |-> the Timestamp
\* returned, error |-> the message thrown]
parseCaptureGroups(match) ==
    IF ~match.found \/ ~match.named
    THEN [timestamp |-> Empty, error |-> "no capture groups"]
    ELSE IF Has(match.groups, "bits") /\ match.groups["bits"] # <<>>
    THEN LET bitsMatch == execFrom(timestampRegex, match.groups["bits"], 1)
         IN  IF ~bitsMatch.found
             THEN [timestamp |-> Empty, error |-> "no bits capture group"]
             ELSE make(UnitsOf(bitsMatch.groups))
    ELSE make(UnitsOf(match.groups))

\* opts.prefix || ..., opts.prefix ?? '': a string option is absent, or a text
TextTruthy(o, name) == Has(o, name) /\ o[name] # <<>>
TextOrEmpty(o, name) == IF Has(o, name) THEN o[name] ELSE <<>>

\* the flags property of new RegExp(source, flags): the flags given, in the
\* order the property lists them
flagsOf(text) ==
    SelectSeq(<<"d", "g", "i", "m", "s", "u", "v", "y">>,
              LAMBDA c : \E k \in 1..Len(text) : text[k] = c)

\* regex(opts): a RegExp is the locator pattern, canonical when it is the
\* timestampsRegex object itself, otherwise a new object whose source is
\* prefix + timestampsRegex.source + suffix
regexNoSuffix(o) ==
    IF TextTruthy(o, "prefix") \/ TextTruthy(o, "suffix") \/ TextTruthy(o, "flags")
    THEN [canonical |-> FALSE,
          source |-> TextOrEmpty(o, "prefix") \o timestampsRegexSource,
          prefix |-> TextOrEmpty(o, "prefix"),
          suffix |-> <<>>,
          flags |-> flagsOf(TextOrEmpty(o, "flags"))]
    ELSE [canonical |-> TRUE, source |-> timestampsRegexSource,
          prefix |-> <<>>, suffix |-> <<>>, flags |-> <<>>]

regex(o) ==
    IF \/ TextTruthy(o, "prefix")
       \/ TextTruthy(o, "suffix")
       \/ TextTruthy(o, "flags")
    THEN [canonical |-> FALSE,
          source |-> TextOrEmpty(o, "prefix") \o timestampsRegexSource
                        \o TextOrEmpty(o, "suffix"),
          prefix |-> TextOrEmpty(o, "prefix"),
          suffix |-> TextOrEmpty(o, "suffix"),
          flags |-> flagsOf(TextOrEmpty(o, "flags"))]
    ELSE [canonical |-> TRUE, source |-> timestampsRegexSource,
          prefix |-> <<>>, suffix |-> <<>>, flags |-> <<>>]

\* the pattern a prefix or suffix source stands for: ^, $, or characters
\* that stand for themselves
Fragment(source) ==
    CASE source = <<"^">> -> Bol
      [] source = <<"$">> -> Eol
      [] OTHER -> Lit(source)

\* new RegExp(prefix + timestampsRegex.source + suffix): the source of
\* timestampsRegex is one (?:...) group, so the pattern is the sequence
Compiled(re) ==
    Cat(<<Fragment(re.prefix), timestampsRegex, Fragment(re.suffix)>>)

\* input.match(re): the first match with its groups; with the g flag an
\* array of the matched texts, which has no groups
stringMatch(text, re) ==
    LET m == execFrom(Compiled(re), text, 1)
    IN  IF \E k \in 1..Len(re.flags) : re.flags[k] = "g"
        THEN [m EXCEPT !.named = FALSE]
        ELSE m

\* parse(input, opts)
parse(text, o) ==
    parseCaptureGroups(stringMatch(text, regex(o)))

(***************************************************************************)
(* replace.                                                                *)
(***************************************************************************)
\* the replacers a caller passes: one that returns null, one that returns
\* nothing, one that returns '', and `[${stringify(timestamp)}]`
Replacers == {"null", "undefined", "empty", "stringify"}

\* replacer(timestamp, match): nullish when the value returned is null or
\* undefined, otherwise the text returned
callReplacer(r, timestamp, match) ==
    CASE r = "empty" -> [nullish |-> FALSE, text |-> <<>>]
      [] r = "stringify" ->
           [nullish |-> FALSE,
            text |-> <<"[">> \o stringify(timestamp, NoFormat).text \o <<"]">>]
      [] OTHER -> [nullish |-> TRUE, text |-> <<>>]

\* the regular expression has the g flag
IsGlobal(re) == \E k \in 1..Len(re.flags) : re.flags[k] = "g"

\* the result of input.replace from the character i on: text is the text
\* put together, error the message thrown by the callback, calls the calls of
\* the replacer made
Scanned(text, thrown, made) == [text |-> text, error |-> thrown, calls |-> made]

\* the text before the match m, what the callback returned for it, and the
\* result after it
spliced(text, i, m, call, value, after) ==
    IF after.error # NoError
    THEN Scanned(<<>>, after.error, <<call>> \o after.calls)
    ELSE Scanned(SubSeq(text, i, m.index - 1)
                    \o (IF value.nullish THEN call.match ELSE value.text)
                    \o after.text,
                 NoError, <<call>> \o after.calls)

\* input.replace(re, callback) from position i on, m being the next match
\* and timestamp what parseCaptureGroups made of its groups
RECURSIVE replaceFrom(_, _, _, _)
replaceMatch(re, text, i, r, m, timestamp) ==
    IF ~m.found THEN Scanned(SubSeq(text, i, Len(text)), NoError, <<>>)
    ELSE IF timestamp.error # NoError THEN Scanned(<<>>, timestamp.error, <<>>)
    ELSE spliced(text, i, m,
                 [timestamp |-> timestamp.timestamp,
                  match |-> SubSeq(text, m.index, m.end - 1)],
                 callReplacer(r, timestamp.timestamp,
                              SubSeq(text, m.index, m.end - 1)),
                 IF IsGlobal(re)
                 THEN replaceFrom(re, text, m.end, r)
                 ELSE Scanned(SubSeq(text, m.end, Len(text)), NoError, <<>>))

nextMatch(re, text, i, r, m) ==
    replaceMatch(re, text, i, r, m, parseCaptureGroups(m))

replaceFrom(re, text, i, r) ==
    nextMatch(re, text, i, r, execFrom(Compiled(re), text, i))

\* if (opts.flags == null) opts.flags = 'g'
withFlags(o) == IF Has(o, "flags") THEN o ELSE Put(o, "flags", <<"g">>)

\* replace(input, replacer, opts): opts is the options object after the call
replace(text, r, o) ==
    [scan |-> replaceFrom(regex(withFlags(o)), text, 1, r), opts |-> withFlags(o)]

(***************************************************************************)
(* makeYoutubeTimestamp.                                                   *)
(***************************************************************************)
\* the fixed texts of the link
LinkOpen ==
    <<"<", "a", " ", "c", "l", "a", "s", "s", "=", "\"", "y", "o", "u", "t",
      "u", "b", "e", "-", "t", "i", "m", "e", "t", "a", "m", "p", "\"", " ",
      "d", "a", "t", "a", "-", "t", "o", "t", "a", "l", "=", "\"">>

LinkHref ==
    <<"\"", " ", "h", "r", "e", "f", "=", "\"">>

WatchUrl ==
    <<"h", "t", "t", "p", "s", ":", "/", "/", "w", "w", "w", ".", "y", "o",
      "u", "t", "u", "b", "e", ".", "c", "o", "m", "/", "w", "a", "t", "c",
      "h", "?", "v", "=">>

TimeParam ==
    <<"&", "t", "=">>

LinkTitle ==
    <<"\"", " ", "t", "i", "t", "l", "e", "=", "\"", "V", "i", "e", "w", " ",
      "t", "h", "e", " ", "v", "i", "d", "e", "o", " ">>

TitleAt ==
    <<" ", "a", "t", " ">>

LinkText ==
    <<"\"", ">">>

LinkClose ==
    <<"<", "/", "a", ">">>

displayTextOfFormat(timestamp, o) ==
    stringify(timestamp, IF Has(o, "format") THEN o["format"] ELSE NoFormat)

\* opts.text || stringify(timestamp, opts.format)
displayText(timestamp, o) ==
    IF TextTruthy(o, "text")
    THEN [text |-> o["text"], error |-> NoError]
    ELSE stringify(timestamp, IF Has(o, "format") THEN o["format"] ELSE NoFormat)

\* the template of the link, filled in
linkText(timestamp, id, o, text, t, title) ==
    IF t.error # NoError THEN [text |-> <<>>, error |-> t.error]
    ELSE IF title.error # NoError THEN [text |-> <<>>, error |-> title.error]
    ELSE [text |-> TextOrEmpty(o, "prefix")
                      \o LinkOpen \o String(timestamp["total"])
                      \o LinkHref \o WatchUrl \o id \o TimeParam \o t.text
                      \o LinkTitle \o id \o TitleAt \o title.text
                      \o LinkText \o text \o LinkClose
                      \o TextOrEmpty(o, "suffix"),
          error |-> NoError]

\* if (text) { ... } return text
linkOrText(timestamp, id, o, text) ==
    IF text.error # NoError THEN [text |-> <<>>, error |-> text.error]
    ELSE IF text.text = <<>> THEN [text |-> <<>>, error |-> NoError]
    ELSE linkText(timestamp, id, o, text.text,
                  stringify(timestamp, Tiny), stringify(timestamp, Long))

\* makeYoutubeTimestamp(timestamp, youtubeID, opts): [text |-> the string
\* returned, error |-> the message thrown]
makeYoutubeTimestamp(timestamp, id, o) ==
    linkOrText(timestamp, id, o, displayText(timestamp, o))

(***************************************************************************)
(* The calls.                                                              *)
(***************************************************************************)
UnitVals == {secondsInMinute * q + r : q \in 0..MaxCarry, r \in {0, 1, 3, 5, 59}}

TotalVals ==
    {secondsInHour * h + secondsInMinute * m + s :
        h \in 0..MaxHours, m \in {0, 1, 2, 59}, s \in {0, 1, 3, 5, 59}}

\* the objects with some of hours, minutes, seconds
UnitInputs ==
    UNION {[D -> UnitVals] : D \in SUBSET Units}

\* the totals a caller passes beside the units u
TotalsFor(u) ==
    {0, 5, sum(u), sum(u) + 1} \cup (IF DOMAIN u = {} THEN TotalVals ELSE {})

MakeInputs ==
    UnitInputs \cup UNION {{Put(u, "total", t) : t \in TotalsFor(u)} : u \in UnitInputs}

(***************************************************************************)
(* The objects given to stringify.                                         *)
(***************************************************************************)
StringifyVals == (0..MaxSmall) \cup {9, 10, 59, 60, 99}

\* the timestamps given to stringify: some of the units, and a total that
\* is their sum, or is not, or is absent
StringifyInputs ==
    LET us == UNION {[D -> StringifyVals] : D \in SUBSET Units}
    IN  us \cup {Put(u, "total", sum(u)) : u \in us}
           \cup {Put(u, "total", sum(u) + 1) : u \in us}

StringifyFormats == Format \cup {NoFormat, "0d"}

(***************************************************************************)
(* The texts given to parse, each with the way it is written: the colon    *)
(* form, the bits form (tokens of a number and a unit), or neither.        *)
(***************************************************************************)
ParseVals == (0..MaxParse) \cup {10, 59, 60, 99}

\* a number as written, with a leading zero when padded
Numeral(value, padded) ==
    IF padded /\ value < 10 THEN <<"0">> \o String(value) ELSE String(value)

\* [hours:]minutes:seconds
ColonText(g) ==
    (IF Has(g.units, "hours")
     THEN Numeral(g.units["hours"], g.padded) \o <<":">> ELSE <<>>)
        \o Numeral(g.units["minutes"], g.padded) \o <<":">>
        \o Numeral(g.units["seconds"], g.padded)

UnitStyles == {"letter", "word", "words", "abbr", "abbrs"}

UnitName(style, unit) ==
    CASE unit = "hours" ->
           (CASE style = "letter" -> <<"h">>
              [] style \in {"word", "abbr"} -> <<"h", "o", "u", "r">>
              [] OTHER -> <<"h", "o", "u", "r", "s">>)
      [] unit = "minutes" ->
           (CASE style = "letter" -> <<"m">>
              [] style = "word" -> <<"m", "i", "n", "u", "t", "e">>
              [] style = "words" -> <<"m", "i", "n", "u", "t", "e", "s">>
              [] style = "abbr" -> <<"m", "i", "n">>
              [] OTHER -> <<"m", "i", "n", "s">>)
      [] unit = "seconds" ->
           (CASE style = "letter" -> <<"s">>
              [] style = "word" -> <<"s", "e", "c", "o", "n", "d">>
              [] style = "words" -> <<"s", "e", "c", "o", "n", "d", "s">>
              [] style = "abbr" -> <<"s", "e", "c">>
              [] OTHER -> <<"s", "e", "c", "s">>)

\* a token: the number, then the unit, a word being glued to the number or
\* set off by a space
Token(g, unit) ==
    Numeral(g.units[unit], g.padded)
        \o (IF g.style = "letter" \/ g.glued THEN <<>> ELSE <<" ">>)
        \o UnitName(g.style, unit)

BitsText(g) ==
    join([k \in 1..Len(g.order) |-> Token(g, g.order[k])],
         IF g.spaced THEN <<" ">> ELSE <<>>)

TextOf(g) ==
    CASE g.kind = "colon" -> ColonText(g)
      [] g.kind = "bits" -> BitsText(g)
      [] OTHER -> g.text

UnitRank(unit) ==
    CASE unit = "hours" -> 1 [] unit = "minutes" -> 2 [] unit = "seconds" -> 3

\* hours, then minutes, then seconds, each at most once
InOrder(order) ==
    \A k \in 1..(Len(order) - 1) : UnitRank(order[k]) < UnitRank(order[k + 1])

UnitOrders == UNION {[1..n -> Units] : n \in 1..MaxTokens}

Range(f) == {f[k] : k \in DOMAIN f}

ColonShapes ==
    {[kind |-> "colon", units |-> u, padded |-> p] :
        u \in [{"minutes", "seconds"} -> ParseVals] \cup [Units -> ParseVals],
        p \in BOOLEAN}

Writings ==
    {[style |-> "letter", glued |-> TRUE, spaced |-> sp, padded |-> p] :
        sp \in BOOLEAN, p \in BOOLEAN}
    \cup {[style |-> st, glued |-> gl, spaced |-> sp, padded |-> p] :
            st \in UnitStyles \ {"letter"}, gl \in BOOLEAN, sp \in BOOLEAN,
            p \in BOOLEAN}

BitsShape(order, u, w) ==
    [kind |-> "bits", order |-> order, units |-> u, style |-> w.style,
     glued |-> w.glued, spaced |-> w.spaced, padded |-> w.padded]

\* the units in order, with every value
OrderedBitsShapes ==
    UNION {{BitsShape(order, u, w) : u \in [Range(order) -> ParseVals], w \in Writings} :
              order \in {o \in UnitOrders : InOrder(o)}}

\* units repeated or out of order
DisorderedBitsShapes ==
    {BitsShape(order, [hours |-> 1, minutes |-> 2, seconds |-> 3], w) :
        order \in {o \in UnitOrders : ~InOrder(o)}, w \in Writings}

PlainShapes ==
    {[kind |-> "plain", text |-> t] :
        t \in {<<>>, <<"0">>, <<"0", "0">>, <<"1", "2", "3">>, <<"1", " ", "h">>,
               <<"h">>, <<":">>, <<"1", ":">>, <<"a", "b", "c">>}}

ParseShapes ==
    ColonShapes \cup OrderedBitsShapes \cup DisorderedBitsShapes \cup PlainShapes

\* the options argument left out
NoOptions == Empty

\* an argument that is an object, nothing to say of how it is written
AnObject == [kind |-> "object"]

\* no replacer: the call takes none
NoReplacer == "none"

\* the options objects with some of prefix, suffix, flags, taken from P, S, F
OptionsOver(P, S, F) ==
    UNION {{[k \in D |-> CASE k = "prefix" -> p [] k = "suffix" -> x [] OTHER -> f] :
                p \in P, x \in S, f \in F} :
           D \in SUBSET {"prefix", "suffix", "flags"}}

\* the timestamps given to makeYoutubeTimestamp: what make returns, a
\* timestamp with units left out, and timestamps whose total is off or absent
LinkTimestamps ==
    {make(u).timestamp : u \in [Units -> {0, 1, 59}]}
        \cup {[total |-> 60, minutes |-> 1],
              [total |-> 5, hours |-> 0, minutes |-> 0, seconds |-> 3],
              [hours |-> 0, minutes |-> 0, seconds |-> 3]}

LinkIDs == {<<"a", "b", "c">>, <<"x", "-", "1">>}

\* the options given to makeYoutubeTimestamp: some of prefix, suffix, format
\* and text
FormatOptions ==
    UNION {{[k \in D |-> CASE k = "prefix" -> p [] k = "suffix" -> x
                           [] k = "format" -> f [] OTHER -> t] :
                p \in {<<>>, <<"-", " ">>}, x \in {<<" ", "-">>},
                f \in Format \cup {"0d"}, t \in {<<>>, <<"n", "o", "w">>}} :
           D \in SUBSET {"prefix", "suffix", "format", "text"}}

\* the pieces of the texts given to replace: timestamps in the colon form
\* and in the bits form, a number that is no timestamp, and a run of bits
\* that does not decompose
ReplacePieces ==
    {[kind |-> "colon", text |-> <<"1", ":", "2">>,
      units |-> [minutes |-> 1, seconds |-> 2]],
     [kind |-> "colon", text |-> <<"0", ":", "0", "0">>,
      units |-> [minutes |-> 0, seconds |-> 0]],
     [kind |-> "bits", text |-> <<"1", "h", "2", "m", "3", "s">>,
      units |-> [hours |-> 1, minutes |-> 2, seconds |-> 3]],
     [kind |-> "bits", text |-> <<"0", "2", " ", "m", "i", "n", "s">>,
      units |-> [minutes |-> 2]],
     [kind |-> "text", text |-> <<"0", "0">>, units |-> Empty],
     [kind |-> "bad", text |-> <<"3", "s", " ", "2", "m">>, units |-> Empty]}

\* the texts given to replace: up to MaxPieces pieces
ReplaceShapes == UNION {[1..n -> ReplacePieces] : n \in 1..MaxPieces}

\* what stands between two pieces: a space between numbers, as in
\* '00 01 0:0 1:0 1:2', and a line break around a run of bits
Separator(a, b) ==
    IF {a.kind, b.kind} \subseteq {"colon", "text"} THEN <<" ">> ELSE <<"\n">>

RECURSIVE TextOfPieces(_)
TextOfPieces(g) ==
    IF Len(g) = 1 THEN g[1].text
    ELSE TextOfPieces(SubSeq(g, 1, Len(g) - 1))
            \o Separator(g[Len(g) - 1], g[Len(g)]) \o g[Len(g)].text

\* the options given to replace
ReplaceOptions ==
    {NoOptions, [flags |-> <<>>], [flags |-> <<"g">>], [prefix |-> <<"^">>]}

\* the options given to parse through its alias extract
ParseOptions == OptionsOver({<<"^">>}, {<<"$">>}, {<<>>, <<"g">>})

\* the options given to regex
RegexOptions ==
    OptionsOver({<<>>, <<"^">>, <<"a", "t", " ">>},
                {<<>>, <<"$">>, <<" ", "-">>},
                {<<>>, <<"g">>, <<"i">>, <<"i", "g">>})

\* a call about to be made: the function and its arguments
\* options is the options object as the caller wrote it and opts the same
\* object as it is now; calls lists the calls of the replacer; returned is
\* what an earlier call returned, when a second call follows
ReadyCall(f, g, timestamp, text, fmt, o, r, id) ==
    /\ pc = "ready"
    /\ op = f
    /\ given = g
    /\ arg = timestamp
    /\ obj = timestamp
    /\ input = text
    /\ format = fmt
    /\ options = o
    /\ opts = o
    /\ replacer = r
    /\ youtubeID = id
    /\ result = Empty
    /\ output = <<>>
    /\ error = NoError
    /\ calls = <<>>
    /\ pattern = Empty
    /\ returned = Empty

Ready(f, g, timestamp, text, fmt) ==
    ReadyCall(f, g, timestamp, text, fmt, NoOptions, NoReplacer, <<>>)

Init ==
    \/ \E timestamp \in MakeInputs :
          Ready("make", AnObject, timestamp, <<>>, NoFormat)
    \/ \E timestamp \in StringifyInputs, fmt \in StringifyFormats :
          Ready("stringify", AnObject, timestamp, <<>>, fmt)
    \/ \E g \in ParseShapes :
          Ready("parse", g, Empty, TextOf(g), NoFormat)
    \/ \E g \in ReplaceShapes, o \in ParseOptions :
          ReadyCall("extract", g, Empty, TextOfPieces(g), NoFormat, o, NoReplacer, <<>>)
    \/ \E o \in RegexOptions :
          ReadyCall("regex", AnObject, Empty, <<>>, NoFormat, o, NoReplacer, <<>>)
    \/ \E g \in ReplaceShapes, r \in Replacers :
          ReadyCall("replace", g, Empty, TextOfPieces(g), NoFormat, NoOptions, r, <<>>)
    \/ \E g \in ReplaceShapes, o \in ReplaceOptions :
          ReadyCall("replace", g, Empty, TextOfPieces(g), NoFormat, o, "stringify", <<>>)
    \/ \E timestamp \in LinkTimestamps, id \in LinkIDs, o \in FormatOptions :
          ReadyCall("makeYoutubeTimestamp", AnObject, timestamp, <<>>, NoFormat,
                    o, NoReplacer, id)

\* make(timestamp): obj is the caller's object after the call, result the
\* returned Timestamp (the same object) when make returns
CallMake ==
    /\ pc = "ready"
    /\ op = "make"
    /\ LET r == make(arg)
       IN  /\ obj' = r.timestamp
           /\ error' = r.error
           /\ result' = IF r.error = NoError THEN r.timestamp ELSE Empty
    /\ pc' = "done"
    /\ UNCHANGED <<op, given, arg, input, format, output>>
    /\ UNCHANGED <<options, opts, replacer, calls, youtubeID, pattern, returned>>

\* make(result), of the Timestamp a first make returned
CallMakeAgain ==
    /\ pc = "done"
    /\ op = "make"
    /\ error = NoError
    /\ \E r \in {make(result)} :
          /\ obj' = r.timestamp
          /\ error' = r.error
          /\ result' = IF r.error = NoError THEN r.timestamp ELSE Empty
    /\ returned' = result
    /\ pc' = "again"
    /\ UNCHANGED <<op, given, arg, input, format, output>>
    /\ UNCHANGED <<options, opts, replacer, calls, youtubeID, pattern>>

\* stringify(timestamp, format)
CallStringify ==
    /\ pc = "ready"
    /\ op = "stringify"
    /\ LET r == stringify(arg, format)
       IN  /\ output' = r.text
           /\ error' = r.error
    /\ pc' = "done"
    /\ UNCHANGED <<op, given, arg, obj, result, input, format>>
    /\ UNCHANGED <<options, opts, replacer, calls, youtubeID, pattern, returned>>

\* parse(stringify(timestamp, format))
CallParseAfterStringify ==
    /\ pc = "done"
    /\ op = "stringify"
    /\ error = NoError
    /\ \E r \in {parse(output, NoOptions)} :
          /\ result' = r.timestamp
          /\ error' = r.error
    /\ pc' = "reparsed"
    /\ op' = "parse"
    /\ UNCHANGED <<given, arg, obj, input, format, output>>
    /\ UNCHANGED <<options, opts, replacer, calls, youtubeID, pattern, returned>>

\* parse(input, opts)
CallParse ==
    /\ pc = "ready"
    /\ op = "parse"
    /\ LET r == parse(input, opts)
       IN  /\ result' = r.timestamp
           /\ error' = r.error
    /\ pc' = "done"
    /\ UNCHANGED <<op, given, arg, obj, input, format, output>>
    /\ UNCHANGED <<options, opts, replacer, calls, youtubeID, pattern, returned>>

\* extract(input, opts): extract is parse under its other name
CallExtract ==
    /\ pc = "ready"
    /\ op = "extract"
    /\ \E r \in {parse(input, opts)} :
          /\ result' = r.timestamp
          /\ error' = r.error
    /\ pc' = "done"
    /\ UNCHANGED <<op, given, arg, obj, input, format, output>>
    /\ UNCHANGED <<options, opts, replacer, calls, youtubeID, pattern, returned>>

\* regex(opts)
CallRegex ==
    /\ pc = "ready"
    /\ op = "regex"
    /\ pattern' = regex(opts)
    /\ pc' = "done"
    /\ UNCHANGED <<op, given, arg, obj, result, input, format, output, error>>
    /\ UNCHANGED <<options, opts, replacer, calls, youtubeID, returned>>

\* makeYoutubeTimestamp(timestamp, youtubeID, opts)
CallMakeYoutubeTimestamp ==
    /\ pc = "ready"
    /\ op = "makeYoutubeTimestamp"
    /\ \E r \in {makeYoutubeTimestamp(arg, youtubeID, opts)} :
          /\ output' = r.text
          /\ error' = r.error
    /\ pc' = "done"
    /\ UNCHANGED <<op, given, arg, obj, result, input, format>>
    /\ UNCHANGED <<options, opts, replacer, calls, youtubeID, pattern, returned>>

\* replace(input, replacer, opts)
CallReplace ==
    /\ pc = "ready"
    /\ op = "replace"
    /\ \E r \in {replace(input, replacer, opts)} :
          /\ output' = r.scan.text
          /\ error' = r.scan.error
          /\ calls' = r.scan.calls
          /\ opts' = r.opts
    /\ pc' = "done"
    /\ UNCHANGED <<op, given, arg, obj, result, input, format>>
    /\ UNCHANGED <<options, replacer, youtubeID, pattern, returned>>

\* parse(input, opts) after replace(input, replacer, opts), with the same
\* options object
CallParseAfterReplace ==
    /\ pc = "done"
    /\ op = "replace"
    /\ \E r \in {parse(input, opts)} :
          /\ result' = r.timestamp
          /\ error' = r.error
    /\ pc' = "reused"
    /\ op' = "parse"
    /\ UNCHANGED <<given, arg, obj, input, format, output>>
    /\ UNCHANGED <<options, opts, replacer, calls, youtubeID, pattern, returned>>

Next ==
    \/ CallMake
    \/ CallMakeAgain
    \/ CallStringify
    \/ CallParseAfterStringify
    \/ CallParse
    \/ CallExtract
    \/ CallRegex
    \/ CallMakeYoutubeTimestamp
    \/ CallReplace
    \/ CallParseAfterReplace

Spec == Init /\ [][Next]_vars

(***************************************************************************)
(* Properties of make.                                                     *)
(***************************************************************************)
\* the call of f has ended (by a return or by a throw)
Done(f) == pc = "done" /\ op = f

\* hours*3600 + minutes*60 + seconds of an object, absent units as zero
SecondsOf(o) ==
    OrZero(o, "hours") * 3600 + OrZero(o, "minutes") * 60 + OrZero(o, "seconds")

SomeUnitPresent(o) == \E u \in Units : Has(o, u)

SomeUnitNonZero(o) == \E u \in Units : Truthy(o, u)

\* C1: make({total: t}) with no unit field returns, for every t >= 0, a
\* Duration whose hours*3600 + minutes*60 + seconds is t and whose total is
\* still t.
C1_TotalOnlyRoundTrip ==
    (Done("make") /\ DOMAIN arg = {"total"}) =>
        /\ error = NoError
        /\ DOMAIN result = Fields
        /\ SecondsOf(result) = arg["total"]
        /\ result["total"] = arg["total"]

\* C2: without a usable total (absent or 0) make carries the seconds into
\* the minutes and the minutes into the hours, never wraps the hours, and
\* sets total to h*3600 + m*60 + s of the units it was given.
C2_UnitsCarry ==
    (Done("make") /\ ~Truthy(arg, "total")) =>
        LET h == OrZero(arg, "hours")
            m == OrZero(arg, "minutes")
            s == OrZero(arg, "seconds")
        IN  /\ error = NoError
            /\ result["seconds"] = s % 60
            /\ result["minutes"] = (m + s \div 60) % 60
            /\ result["hours"] = h + (m + s \div 60) \div 60
            /\ result["total"] = h * 3600 + m * 60 + s

C2_Witness ==
    /\ Done("make")
    /\ arg = [seconds |-> 125]
    /\ result = [hours |-> 0, minutes |-> 2, seconds |-> 5, total |-> 125]

\* C3: a non-zero total given with at least one non-zero unit and different
\* from the sum of the units makes make throw 'timestamp total did not match
\* the sum'; nothing is returned.
C3_MismatchThrows ==
    (/\ Done("make")
     /\ Truthy(arg, "total")
     /\ SomeUnitNonZero(arg)
     /\ arg["total"] # SecondsOf(arg)) =>
        /\ error = "timestamp total did not match the sum"
        /\ result = Empty

C3_Witness ==
    /\ Done("make")
    /\ arg = [total |-> 5, seconds |-> 3]
    /\ error = "timestamp total did not match the sum"

\* C4: whenever total is present (0 included) beside a present unit (0
\* included) and total is not the sum of the units, make fails: it never
\* returns a Duration with the total or the units recomputed.
C4_PresentMismatchFails ==
    (/\ Done("make")
     /\ Has(arg, "total")
     /\ SomeUnitPresent(arg)
     /\ arg["total"] # SecondsOf(arg)) =>
        error # NoError

\* C5: whenever make returns, the Duration has the four fields and its
\* total is hours*3600 + minutes*60 + seconds.
C5_ReturnedIsComplete ==
    (Done("make") /\ error = NoError) =>
        /\ DOMAIN result = Fields
        /\ result["total"] =
             result["hours"] * 3600 + result["minutes"] * 60 + result["seconds"]

C5_Witness ==
    /\ Done("make")
    /\ arg = [total |-> 3663, hours |-> 1, minutes |-> 1, seconds |-> 3]
    /\ error = NoError
    /\ result = arg

\* C20: make of an object with a non-zero total and no unit field returns
\* hours = total div 3600, minutes = (total mod 3600) div 60 and
\* seconds = total mod 60.
C20_TotalDecomposition ==
    (Done("make") /\ DOMAIN arg = {"total"} /\ arg["total"] # 0) =>
        /\ error = NoError
        /\ result["hours"] = arg["total"] \div secondsInHour
        /\ result["minutes"] = (arg["total"] % secondsInHour) \div secondsInMinute
        /\ result["seconds"] = arg["total"] % secondsInMinute

\* C21: whenever make returns, the seconds and the minutes of the result
\* are in 0..59, the overflow having been carried into the next unit.
C21_ReturnedIsNormalized ==
    (Done("make") /\ error = NoError) =>
        /\ result["seconds"] \in 0..59
        /\ result["minutes"] \in 0..59

\* the part of C21 the code satisfies: the units are carried when the total
\* is absent or 0, or when no unit is given with it
C21_NormalizedUnlessVerified ==
    (Done("make") /\ error = NoError
        /\ ~(Truthy(arg, "total") /\ SomeUnitNonZero(arg))) =>
        /\ result["seconds"] \in 0..59
        /\ result["minutes"] \in 0..59

\* C24: when make returns, make of the Timestamp it returned returns as
\* well, and returns the same total, hours, minutes and seconds.
C24_MakeIdempotent ==
    (pc = "again" /\ op = "make") =>
        /\ error = NoError
        /\ result = returned
        /\ obj = returned

C24_Witness ==
    /\ pc = "again"
    /\ op = "make"
    /\ arg = [seconds |-> 125]
    /\ returned = [hours |-> 0, minutes |-> 2, seconds |-> 5, total |-> 125]
    /\ result = returned

\* C25: when make throws, the object it was given has the fields and the
\* values it had before the call.
C25_FailedMakeLeavesArgument ==
    (Done("make") /\ error # NoError) => obj = arg

(***************************************************************************)
(* Properties of stringify.                                                *)
(***************************************************************************)
\* a Duration: the four fields, total the sum of the units
ConsistentDuration(o) == DOMAIN o = Fields /\ o["total"] = SecondsOf(o)

NormalizedDuration(o) ==
    ConsistentDuration(o) /\ o["minutes"] <= 59 /\ o["seconds"] <= 59

UnitText(style, unit) ==
    CASE style \in {Tiny, Short} ->
           (CASE unit = "hours" -> <<"h">>
              [] unit = "minutes" -> <<"m">>
              [] unit = "seconds" -> <<"s">>)
      [] style = Medium ->
           (CASE unit = "hours" -> <<" ", "h", "o", "u", "r", "s">>
              [] unit = "minutes" -> <<" ", "m", "i", "n", "s">>
              [] unit = "seconds" -> <<" ", "s", "e", "c", "s">>)
      [] style = Long ->
           (CASE unit = "hours" -> <<" ", "h", "o", "u", "r", "s">>
              [] unit = "minutes" -> <<" ", "m", "i", "n", "u", "t", "e", "s">>
              [] unit = "seconds" -> <<" ", "s", "e", "c", "o", "n", "d", "s">>)

ZeroLiteral(style) ==
    CASE style = Tiny -> <<"0", "s">>
      [] style = Short -> <<"0", "0", "s">>
      [] style = Medium -> <<"0", " ", "s", "e", "c", "s">>
      [] style = Long -> <<"0", " ", "s", "e", "c", "o", "n", "d", "s">>

RECURSIVE Glue(_, _)
Glue(pieces, separator) ==
    IF Len(pieces) = 1
    THEN pieces[1]
    ELSE Glue(SubSeq(pieces, 1, Len(pieces) - 1), separator)
            \o separator \o pieces[Len(pieces)]

\* the non-zero units of d in the order hours, minutes, seconds, each as its
\* value and the style's unit text
Listing(d, style) ==
    LET shown == SelectSeq(<<"hours", "minutes", "seconds">>, LAMBDA u : d[u] # 0)
        pieces == [i \in 1..Len(shown) |-> String(d[shown[i]]) \o UnitText(style, shown[i])]
    IN  IF shown = <<>>
        THEN ZeroLiteral(style)
        ELSE Glue(pieces, IF style = Tiny THEN <<>> ELSE <<" ">>)

\* C8: in the styles Tiny, Short, Medium and Long stringify lists the
\* non-zero units of a consistent Duration in the order hours, minutes,
\* seconds with the style's unit text and separator, and returns the style's
\* zero literal ('0s', '00s', '0 secs', '0 seconds') when all are zero.
C8_UnitListing ==
    (/\ Done("stringify")
     /\ ConsistentDuration(arg)
     /\ format \in {Tiny, Short, Medium, Long}) =>
        /\ error = NoError
        /\ output = Listing(arg, format)

C8_Witness ==
    /\ Done("stringify")
    /\ arg = [total |-> 3603, hours |-> 1, minutes |-> 0, seconds |-> 3]
    /\ format = Medium
    /\ output = <<"1", " ", "h", "o", "u", "r", "s", " ", "3", " ", "s", "e", "c", "s">>

TwoDigits(n) == <<Digits[(n \div 10) + 1], Digits[(n % 10) + 1]>>

\* C9: in the Numeric style a normalized Duration is rendered H:MM:SS when
\* hours is not zero and M:SS when it is, hours (or leading minutes)
\* unpadded, the rest padded to two digits.
C9_Numeric ==
    (/\ Done("stringify")
     /\ NormalizedDuration(arg)
     /\ format = Numeric) =>
        /\ error = NoError
        /\ output =
             IF arg["hours"] # 0
             THEN String(arg["hours"]) \o <<":">> \o TwoDigits(arg["minutes"])
                     \o <<":">> \o TwoDigits(arg["seconds"])
             ELSE String(arg["minutes"]) \o <<":">> \o TwoDigits(arg["seconds"])

C9_Witness ==
    /\ Done("stringify")
    /\ arg = [total |-> 3723, hours |-> 1, minutes |-> 2, seconds |-> 3]
    /\ format = Numeric
    /\ output = <<"1", ":", "0", "2", ":", "0", "3">>

\* C10: in the Seconds style a consistent Duration is rendered as its
\* decimal total followed by 's', whatever its units.
C10_SecondsStyle ==
    (/\ Done("stringify")
     /\ ConsistentDuration(arg)
     /\ format = Seconds) =>
        /\ error = NoError
        /\ output = String(arg["total"]) \o <<"s">>

C10_Witness ==
    /\ Done("stringify")
    /\ arg = [total |-> 3723, hours |-> 1, minutes |-> 2, seconds |-> 3]
    /\ format = Seconds
    /\ output = <<"3", "7", "2", "3", "s">>

Filled(o) == [f \in Fields |-> OrZero(o, f)]

\* C12: a timestamp with some of hours, minutes, seconds absent and a total
\* equal to the sum of the present units is rendered, in every style, as the
\* same timestamp with the absent units set to 0.
C12_AbsentUnitsAsZero ==
    (/\ Done("stringify")
     /\ Has(arg, "total")
     /\ arg["total"] = SecondsOf(arg)
     /\ \E u \in Units : ~Has(arg, u)
     /\ format \in Format \cup {NoFormat}) =>
        /\ error = NoError
        /\ output = stringify(Filled(arg), format).text
        /\ format \in {Tiny, Short, Medium, Long} =>
             output = Listing(Filled(arg), format)

C12_Witness ==
    /\ Done("stringify")
    /\ arg = [total |-> 3600, hours |-> 1]
    /\ format = Numeric
    /\ output = <<"1", ":", "0", "0", ":", "0", "0">>

\* the total of the timestamp is not the sum of its units
Invalid(o) == ~Has(o, "total") \/ o["total"] # SecondsOf(o)

DurationOf(u) ==
    LET h == OrZero(u, "hours")
        m == OrZero(u, "minutes")
        s == OrZero(u, "seconds")
    IN  [hours |-> h + (m + s \div 60) \div 60,
         minutes |-> (m + s \div 60) % 60,
         seconds |-> s % 60,
         total |-> h * 3600 + m * 60 + s]

WellFormed(g) ==
    g.kind = "colon" \/ (g.kind = "bits" /\ InOrder(g.order))

\* C6: for every h, m, s in 0..99 the colon form and the bits form (any
\* subset of the units in the order hours, minutes, seconds, with or without
\* a space between the tokens, letter or spelled-out units) parse to the same
\* Duration, make({hours, minutes, seconds}) of the units written.
C6_FormsAgree ==
    (Done("parse") /\ WellFormed(given)) =>
        /\ error = NoError
        /\ result = DurationOf(given.units)

\* the part of C6 the code satisfies: the colon form, letter units, words
\* set off from their number by a space, and a single token
C6_FormsAgreeUnlessGlued ==
    (/\ Done("parse")
     /\ WellFormed(given)
     /\ (given.kind = "bits" =>
           (given.style = "letter" \/ ~given.glued \/ Len(given.order) = 1))) =>
        /\ error = NoError
        /\ result = DurationOf(given.units)

\* C7: parse returns a complete Duration or throws; it throws 'no capture
\* groups' exactly when the text has no colon form and no token in it, and
\* 'no bits capture group' when the run of tokens found has its units
\* repeated or out of order.
C7_ParseErrors ==
    Done("parse") =>
        /\ error \in {NoError, "no capture groups", "no bits capture group"}
        /\ (error = NoError) => (DOMAIN result = Fields)
        /\ (error = "no capture groups") <=> (given.kind = "plain")
        /\ (error = "no bits capture group") =>
             (given.kind = "bits" /\ ~InOrder(given.order))
        /\ (/\ given.kind = "bits"
            /\ ~InOrder(given.order)
            /\ (given.style = "letter" \/ ~given.glued)) =>
             (error = "no bits capture group")

C7_Witness ==
    /\ Done("parse")
    /\ input = <<"3", "s", " ", "2", "m">>
    /\ error = "no bits capture group"
    /\ result = Empty

(***************************************************************************)
(* Properties of regex.                                                    *)
(***************************************************************************)
\* the characters of a text
CharsOf(text) == {text[k] : k \in 1..Len(text)}

\* C19: regex with no options, or with prefix, suffix and flags all empty,
\* returns timestampsRegex itself, which has no g flag; with a non-empty
\* prefix, suffix or flags it returns a new pattern whose source is
\* prefix + timestampsRegex.source + suffix and whose flags are the flags
\* given, none when flags is absent.
C19_RegexPattern ==
    Done("regex") =>
        IF \A k \in {"prefix", "suffix", "flags"} :
              ~Has(options, k) \/ options[k] = <<>>
        THEN /\ pattern.canonical
             /\ pattern.source = timestampsRegexSource
             /\ "g" \notin CharsOf(pattern.flags)
        ELSE /\ ~pattern.canonical
             /\ pattern.source =
                  (IF Has(options, "prefix") THEN options["prefix"] ELSE <<>>)
                     \o timestampsRegexSource
                     \o (IF Has(options, "suffix") THEN options["suffix"] ELSE <<>>)
             /\ CharsOf(pattern.flags) =
                  (IF Has(options, "flags") THEN CharsOf(options["flags"]) ELSE {})
             /\ Len(pattern.flags) = Cardinality(CharsOf(pattern.flags))

C19_Witness ==
    /\ Done("regex")
    /\ options = [prefix |-> <<"^">>, suffix |-> <<" ", "-">>]
    /\ ~pattern.canonical
    /\ pattern.source = <<"^">> \o timestampsRegexSource \o <<" ", "-">>
    /\ pattern.flags = <<>>

(***************************************************************************)
(* Properties of makeYoutubeTimestamp.                                     *)
(***************************************************************************)
\* the link to the video id at the time t, with the title and the content
Link(id, total, t, title, content) ==
    LinkOpen \o String(total) \o LinkHref \o WatchUrl \o id \o TimeParam \o t
        \o LinkTitle \o id \o TitleAt \o title \o LinkText \o content \o LinkClose

\* the Duration make({total: 0}) returns
ZeroDuration == [hours |-> 0, minutes |-> 0, seconds |-> 0, total |-> 0]

\* the rendering of the all-zero Duration in a style
ZeroText(style) ==
    CASE style = Numeric -> <<"0", ":", "0", "0">>
      [] style = Seconds -> <<"0", "s">>
      [] OTHER -> ZeroLiteral(style)

\* the style the caller chose, Short when none
ChosenStyle(o) == IF Has(o, "format") THEN o["format"] ELSE Short

\* C17, as stated: makeYoutubeTimestamp of the all-zero Duration, with any
\* video id and no text override, returns the empty string.
C17_ZeroGivesEmpty ==
    (/\ Done("makeYoutubeTimestamp")
     /\ arg = ZeroDuration
     /\ ~TextTruthy(options, "text")
     /\ ChosenStyle(options) \in Format) =>
        /\ error = NoError
        /\ output = <<>>

\* C17, amended: makeYoutubeTimestamp of the all-zero Duration, with any
\* video id and no text override, returns a link, never the empty string:
\* its content is the zero rendering of the chosen style ('00s' by default),
\* its time parameter '0s' and its title ends in '0 seconds'.
C17_ZeroGivesLink ==
    (/\ Done("makeYoutubeTimestamp")
     /\ arg = ZeroDuration
     /\ ~TextTruthy(options, "text")
     /\ ChosenStyle(options) \in Format) =>
        /\ error = NoError
        /\ output # <<>>
        /\ output =
             TextOrEmpty(options, "prefix")
                \o Link(youtubeID, 0, <<"0", "s">>, ZeroLiteral(Long),
                        ZeroText(ChosenStyle(options)))
                \o TextOrEmpty(options, "suffix")

C17_Witness ==
    /\ Done("makeYoutubeTimestamp")
    /\ arg = make([total |-> 0]).timestamp
    /\ options = NoOptions
    /\ youtubeID = <<"a", "b", "c">>
    /\ output =
         <<"<", "a", " ", "c", "l", "a", "s", "s", "=", "\"", "y", "o", "u",
           "t", "u", "b", "e", "-", "t", "i", "m", "e", "t", "a", "m", "p",
           "\"", " ", "d", "a", "t", "a", "-", "t", "o", "t", "a", "l", "=",
           "\"", "0", "\"", " ", "h", "r", "e", "f", "=", "\"", "h", "t",
           "t", "p", "s", ":", "/", "/", "w", "w", "w", ".", "y", "o", "u",
           "t", "u", "b", "e", ".", "c", "o", "m", "/", "w", "a", "t", "c",
           "h", "?", "v", "=", "a", "b", "c", "&", "t", "=", "0", "s", "\"",
           " ", "t", "i", "t", "l", "e", "=", "\"", "V", "i", "e", "w", " ",
           "t", "h", "e", " ", "v", "i", "d", "e", "o", " ", "a", "b", "c",
           " ", "a", "t", " ", "0", " ", "s", "e", "c", "o", "n", "d", "s",
           "\"", ">", "0", "0", "s", "<", "/", "a", ">">>

\* C18: for a consistent Duration makeYoutubeTimestamp shows the text
\* override when one is given and is not empty, otherwise stringify in the
\* chosen style, Short by default; when that text is not empty the result is
\* prefix + link + suffix, the link's time parameter being the Tiny
\* rendering, its title carrying the Long rendering and its content being
\* the text shown.
C18_LinkStructure ==
    (/\ Done("makeYoutubeTimestamp")
     /\ Has(arg, "total")
     /\ arg["total"] = SecondsOf(arg)
     /\ (TextTruthy(options, "text") \/ ChosenStyle(options) \in Format)) =>
        LET shown == IF TextTruthy(options, "text")
                     THEN options["text"]
                     ELSE stringify(arg, ChosenStyle(options)).text
        IN  /\ error = NoError
            /\ shown # <<>> =>
                 output =
                   TextOrEmpty(options, "prefix")
                      \o Link(youtubeID, arg["total"],
                              Listing(Filled(arg), Tiny),
                              Listing(Filled(arg), Long), shown)
                      \o TextOrEmpty(options, "suffix")

C18_Witness ==
    /\ Done("makeYoutubeTimestamp")
    /\ arg = [hours |-> 1, minutes |-> 1, seconds |-> 59, total |-> 3719]
    /\ options = [prefix |-> <<"-", " ">>, format |-> Numeric]
    /\ youtubeID = <<"a", "b", "c">>
    /\ output =
         <<"-", " ", "<", "a", " ", "c", "l", "a", "s", "s", "=", "\"", "y",
           "o", "u", "t", "u", "b", "e", "-", "t", "i", "m", "e", "t", "a",
           "m", "p", "\"", " ", "d", "a", "t", "a", "-", "t", "o", "t", "a",
           "l", "=", "\"", "3", "7", "1", "9", "\"", " ", "h", "r", "e", "f",
           "=", "\"", "h", "t", "t", "p", "s", ":", "/", "/", "w", "w", "w",
           ".", "y", "o", "u", "t", "u", "b", "e", ".", "c", "o", "m", "/",
           "w", "a", "t", "c", "h", "?", "v", "=", "a", "b", "c", "&", "t",
           "=", "1", "h", "1", "m", "5", "9", "s", "\"", " ", "t", "i", "t",
           "l", "e", "=", "\"", "V", "i", "e", "w", " ", "t", "h", "e", " ",
           "v", "i", "d", "e", "o", " ", "a", "b", "c", " ", "a", "t", " ",
           "1", " ", "h", "o", "u", "r", "s", " ", "1", " ", "m", "i", "n",
           "u", "t", "e", "s", " ", "5", "9", " ", "s", "e", "c", "o", "n",
           "d", "s", "\"", ">", "1", ":", "0", "1", ":", "5", "9", "<", "/",
           "a", ">">>

(***************************************************************************)
(* Properties of replace.                                                  *)
(***************************************************************************)
\* the piece is a timestamp
IsTimestamp(piece) == piece.kind \in {"colon", "bits"}

\* the piece is a run of bits that does not decompose
IsMalformed(piece) == piece.kind = "bad"

Malformed(g) == \E i \in 1..Len(g) : IsMalformed(g[i])

\* every match is visited: no prefix, and no flags or the g flag
EveryMatch(o) ==
    /\ ~Has(o, "prefix")
    /\ ~Has(o, "suffix")
    /\ Has(o, "flags") => o["flags"] = <<"g">>

\* what stands for a piece in the result: the text the replacer returns for a
\* timestamp, the piece itself when the replacer returns null or undefined
\* and for what is no timestamp
Replaced(piece, r) ==
    IF ~IsTimestamp(piece) THEN piece.text
    ELSE CASE r = "empty" -> <<>>
           [] r = "stringify" ->
                <<"[">> \o Listing(DurationOf(piece.units), Short) \o <<"]">>
           [] OTHER -> piece.text

RECURSIVE Spliced(_, _)
Spliced(g, r) ==
    IF Len(g) = 1 THEN Replaced(g[1], r)
    ELSE Spliced(SubSeq(g, 1, Len(g) - 1), r)
            \o Separator(g[Len(g) - 1], g[Len(g)]) \o Replaced(g[Len(g)], r)

\* one call of the replacer for each timestamp of the text, in order
Visits(g) ==
    LET found == SelectSeq(g, IsTimestamp)
    IN  [i \in 1..Len(found) |->
            [timestamp |-> DurationOf(found[i].units), match |-> found[i].text]]

\* C13: replace returns the input with each matched span replaced by the
\* string the replacer returns ('' deletes the span), kept when the replacer
\* returns null or undefined, and every other character in place.
C13_Splices ==
    (Done("replace") /\ EveryMatch(options)) =>
        /\ error = NoError
        /\ output = Spliced(given, replacer)

\* the part of C13 the code satisfies: texts without a run of bits that does
\* not decompose
C13_SplicesUnlessMalformed ==
    (Done("replace") /\ EveryMatch(options) /\ ~Malformed(given)) =>
        /\ error = NoError
        /\ output = Spliced(given, replacer)

\* C14: with no flags given replace calls the replacer once for every match
\* of the text, from left to right, with the Duration of the match and the
\* matched text, and never for what is no match.
C14_VisitsEveryMatch ==
    (Done("replace") /\ EveryMatch(options) /\ ~Has(options, "flags")) =>
        /\ error = NoError
        /\ calls = Visits(given)

\* the part of C14 the code satisfies
C14_VisitsUnlessMalformed ==
    (Done("replace") /\ EveryMatch(options) /\ ~Has(options, "flags")
        /\ ~Malformed(given)) =>
        /\ error = NoError
        /\ calls = Visits(given)

\* C15: when a located span is a run of bits that does not decompose,
\* replace does not throw: it leaves the span as it is, does not call the
\* replacer for it and goes on with the other matches.
C15_MalformedIsSkipped ==
    (Done("replace") /\ EveryMatch(options) /\ Malformed(given)) =>
        /\ error = NoError
        /\ output = Spliced(given, replacer)
        /\ calls = Visits(given)

\* what replace does with such a span: it throws, after the calls made for
\* the matches on its left
C15_MalformedThrows ==
    (Done("replace") /\ EveryMatch(options) /\ Malformed(given)) =>
        LET first == CHOOSE i \in 1..Len(given) :
                        /\ IsMalformed(given[i])
                        /\ \A j \in 1..(i - 1) : ~IsMalformed(given[j])
        IN  /\ error = "no bits capture group"
            /\ output = <<>>
            /\ calls = Visits(SubSeq(given, 1, first - 1))

\* C16: stringify, regex, parse, replace and makeYoutubeTimestamp leave the
\* timestamp and the options object they are given as they were, so a parse
\* that follows a replace with the same options object does what it does
\* with a copy of the options as the caller wrote them.
C16_ArgumentsUnchanged ==
    /\ (pc = "done" /\ op # "make") => (obj = arg /\ opts = options)
    /\ pc = "reused" =>
         /\ opts = options
         /\ result = parse(input, options).timestamp
         /\ error = parse(input, options).error

(***************************************************************************)
(* Formatting, then parsing.                                               *)
(***************************************************************************)
\* C26: for every normalized Duration d with hours <= 99 and every style
\* among Numeric, Tiny, Short, Medium and Long, parse(stringify(d, style))
\* returns, and returns the total, hours, minutes and seconds of d.
C26_RoundTrip ==
    (/\ pc = "reparsed"
     /\ NormalizedDuration(arg)
     /\ arg["hours"] <= 99
     /\ format \in {Numeric, Tiny, Short, Medium, Long}) =>
        /\ error = NoError
        /\ result = arg

C26_Witness ==
    /\ pc = "reparsed"
    /\ arg = [hours |-> 99, minutes |-> 59, seconds |-> 0, total |-> 359940]
    /\ format = Medium
    /\ output = <<"9", "9", " ", "h", "o", "u", "r", "s", " ",
                  "5", "9", " ", "m", "i", "n", "s">>
    /\ result = arg

(***************************************************************************)
(* Properties of parse with options.                                       *)
(***************************************************************************)
\* the piece is located by timestampsRegex
IsLocated(piece) == IsTimestamp(piece) \/ IsMalformed(piece)

\* the pieces of the text the pattern built from the options matches: with
\* the prefix ^ only the first piece, with the suffix $ only the last
Matches(g, o) ==
    {i \in 1..Len(g) :
        /\ IsLocated(g[i])
        /\ TextTruthy(o, "prefix") => i = 1
        /\ TextTruthy(o, "suffix") => i = Len(g)}

FirstMatch(g, o) == g[CHOOSE i \in Matches(g, o) : \A j \in Matches(g, o) : i <= j]

\* the options have the g flag
HasGlobalFlag(o) == Has(o, "flags") /\ "g" \in CharsOf(o["flags"])

\* C22: for every options value, the g flag included, parse returns the
\* Duration of the first match of the pattern built from the options, and
\* throws only when that pattern has no match in the input or the run of
\* bits matched does not decompose.
C22_FirstMatch ==
    Done("extract") =>
        IF Matches(given, options) = {}
        THEN error = "no capture groups"
        ELSE IF IsMalformed(FirstMatch(given, options))
        THEN error = "no bits capture group"
        ELSE /\ error = NoError
             /\ result = DurationOf(FirstMatch(given, options).units)

\* the part of C22 the code satisfies: options without the g flag
C22_FirstMatchUnlessGlobal ==
    (Done("extract") /\ ~HasGlobalFlag(options)) =>
        IF Matches(given, options) = {}
        THEN error = "no capture groups"
        ELSE IF IsMalformed(FirstMatch(given, options))
        THEN error = "no bits capture group"
        ELSE /\ error = NoError
             /\ result = DurationOf(FirstMatch(given, options).units)

\* what parse does with the g flag: it throws, match or no match
C22_GlobalThrows ==
    (Done("extract") /\ HasGlobalFlag(options)) => error = "no capture groups"

====
